---- MODULE Spec2Model ----
(***************************************************************************)
(* Model of cantools.database.can.database.Database: the message list,    *)
(* the name and frame-id lookup tables rebuilt by refresh(), the add_*     *)
(* loaders' merge step and the lookups / encode / decode dispatch.         *)
(***************************************************************************)
EXTENDS Integers, Sequences, FiniteSets, TLC

VARIABLES
    heap,                \* the Message objects that exist; object id = index
    messages,            \* self._messages: list of object ids
    nodes,               \* self._nodes    (tag of the source it came from)
    buses,               \* self._buses
    version,             \* self._version
    dbc,                 \* self._dbc
    autosar,             \* self._autosar
    name_to_message,     \* self._name_to_message
    frame_id_to_message, \* self._frame_id_to_message
    frame_id_mask,       \* self._frame_id_mask
    strict,              \* self._strict
    loads,               \* number of sources loaded so far by add_* calls
    last,                \* outcome of the last constructor / add / refresh / edit
    ret                  \* outcome of the last lookup / encode / decode call

dbvars == <<messages, nodes, buses, version, dbc, autosar,
            name_to_message, frame_id_to_message, frame_id_mask, strict>>
vars == <<heap, messages, nodes, buses, version, dbc, autosar,
          name_to_message, frame_id_to_message, frame_id_mask, strict,
          loads, last, ret>>

----------------------------------------------------------------------------
(* Bounds of the model *)

MaxMsgs == 2        \* Message objects ever created
MaxCtorMsgs == 2    \* messages handed to the constructor
MaxPerLoad == 2     \* messages in one loaded source
MaxLoads == 2       \* add_* calls that load a source

Names == {"a", "b"}
FrameIds == {1, 3}
QueryNames == {"a", "b"}
QueryIds == {1, 3}
DataVals == {"good", "bad"}

----------------------------------------------------------------------------
(* Python integers under & | ~.  A Python int is an unbounded two's-        *)
(* complement number: it is held as the set of its one bits when it is not   *)
(* negative and as the set of its zero bits when it is negative, which makes *)
(* the three operators exact at any width (0xffffffff has bits 0..31).       *)

LiteralBits == 0..7

PyInt(n) ==
    IF n >= 0
    THEN [neg |-> FALSE, bits |-> {i \in LiteralBits : (n \div (2 ^ i)) % 2 = 1}]
    ELSE [neg |-> TRUE, bits |-> {i \in LiteralBits : (((-n) - 1) \div (2 ^ i)) % 2 = 1}]

BitAnd(a, b) ==
    IF ~a.neg /\ ~b.neg THEN [neg |-> FALSE, bits |-> a.bits \cap b.bits]
    ELSE IF ~a.neg /\ b.neg THEN [neg |-> FALSE, bits |-> a.bits \ b.bits]
    ELSE IF a.neg /\ ~b.neg THEN [neg |-> FALSE, bits |-> b.bits \ a.bits]
    ELSE [neg |-> TRUE, bits |-> a.bits \cup b.bits]

BitOr(a, b) ==
    IF ~a.neg /\ ~b.neg THEN [neg |-> FALSE, bits |-> a.bits \cup b.bits]
    ELSE IF ~a.neg /\ b.neg THEN [neg |-> TRUE, bits |-> b.bits \ a.bits]
    ELSE IF a.neg /\ ~b.neg THEN [neg |-> TRUE, bits |-> a.bits \ b.bits]
    ELSE [neg |-> TRUE, bits |-> a.bits \cap b.bits]

BitNot(a) == [neg |-> ~a.neg, bits |-> a.bits]

\* the default written with a wrong digit, 0xfffffffd
DefaultFrameIdMask_Typo == [neg |-> FALSE, bits |-> (0..31) \ {1}]

\* frame_id_mask = 0xffffffff when the constructor is given None
DefaultFrameIdMask == [neg |-> FALSE, bits |-> 0..31]
Masks == {DefaultFrameIdMask, PyInt(1), PyInt(2)}

----------------------------------------------------------------------------
(* Message objects *)

MessageObjects == [name : Names, frame_id : FrameIds, valid : BOOLEAN]

\* Message.refresh(strict): raises when strict and the signals overlap or
\* do not fit in the message
MessageRefreshRaises(m, s) == s /\ ~m.valid

EmptyMap == [k \in {} |-> 0]

MapPut(f, k, v) == [x \in (DOMAIN f) \cup {k} |-> IF x = k THEN v ELSE f[x]]

NoRet == [op |-> "none", kind |-> "none", name |-> "", id |-> PyInt(0), data |-> "",
          status |-> "none", message |-> 0, codec |-> FALSE]

----------------------------------------------------------------------------
(* Database._add_message and Database.refresh *)

\* the index key with the mask forgotten
masked_frame_id_raw(fid, mask) == PyInt(fid)

masked_frame_id(fid, mask) == BitAnd(PyInt(fid), mask)

\* _add_message with the name table keeping its earlier entry
add_message_keep_first_name(h, mask, st, m) ==
    LET name == h[m].name
        mfid == BitAnd(PyInt(h[m].frame_id), mask)
        w1 == IF name \in DOMAIN st.name_to_message
              THEN {[dict |-> "name", old |-> st.name_to_message[name], new |-> m]}
              ELSE {}
        w2 == IF mfid \in DOMAIN st.frame_id_to_message
              THEN {[dict |-> "frame_id", old |-> st.frame_id_to_message[mfid], new |-> m]}
              ELSE {}
    IN [st EXCEPT !.name_to_message =
                      IF name \in DOMAIN st.name_to_message THEN st.name_to_message
                      ELSE MapPut(st.name_to_message, name, m),
                  !.frame_id_to_message = MapPut(st.frame_id_to_message, mfid, m),
                  !.warnings = st.warnings \cup w1 \cup w2]

\* _add_message with the frame-id table keeping its earlier entry
add_message_keep_first_id(h, mask, st, m) ==
    LET name == h[m].name
        mfid == BitAnd(PyInt(h[m].frame_id), mask)
        w1 == IF name \in DOMAIN st.name_to_message
              THEN {[dict |-> "name", old |-> st.name_to_message[name], new |-> m]}
              ELSE {}
        w2 == IF mfid \in DOMAIN st.frame_id_to_message
              THEN {[dict |-> "frame_id", old |-> st.frame_id_to_message[mfid], new |-> m]}
              ELSE {}
    IN [st EXCEPT !.name_to_message = MapPut(st.name_to_message, name, m),
                  !.frame_id_to_message =
                      IF mfid \in DOMAIN st.frame_id_to_message THEN st.frame_id_to_message
                      ELSE MapPut(st.frame_id_to_message, mfid, m),
                  !.warnings = st.warnings \cup w1 \cup w2]

add_message(h, mask, st, m) ==
    LET name == h[m].name
        mfid == masked_frame_id(h[m].frame_id, mask)
        w1 == IF name \in DOMAIN st.name_to_message
              THEN {[dict |-> "name", old |-> st.name_to_message[name], new |-> m]}
              ELSE {}
        w2 == IF mfid \in DOMAIN st.frame_id_to_message
              THEN {[dict |-> "frame_id", old |-> st.frame_id_to_message[mfid], new |-> m]}
              ELSE {}
    IN [st EXCEPT !.name_to_message = MapPut(st.name_to_message, name, m),
                  !.frame_id_to_message = MapPut(st.frame_id_to_message, mfid, m),
                  !.warnings = st.warnings \cup w1 \cup w2]

\* the loop with a message put in the tables before it is validated
RECURSIVE refresh_loop_index_first(_, _, _, _, _, _)
refresh_loop_index_first(h, msgs, mask, s, i, st) ==
    IF i > Len(msgs) THEN st
    ELSE IF MessageRefreshRaises(h[msgs[i]], s)
         THEN [add_message(h, mask, st, msgs[i]) EXCEPT !.status = "error", !.failed = msgs[i]]
         ELSE refresh_loop_index_first(h, msgs, mask, s, i + 1,
                                       add_message(h, mask, st, msgs[i]))

RECURSIVE refresh_loop(_, _, _, _, _, _)
refresh_loop(h, msgs, mask, s, i, st) ==
    IF i > Len(msgs) THEN st
    ELSE IF MessageRefreshRaises(h[msgs[i]], s)
         THEN [st EXCEPT !.status = "error", !.failed = msgs[i]]
         ELSE refresh_loop(h, msgs, mask, s, i + 1, add_message(h, mask, st, msgs[i]))

refresh(h, msgs, mask, s) ==
    refresh_loop(h, msgs, mask, s, 1,
                 [name_to_message |-> EmptyMap, frame_id_to_message |-> EmptyMap,
                  warnings |-> {}, status |-> "ok", failed |-> 0])

----------------------------------------------------------------------------
(* Database.__init__ *)

Init ==
    \E n \in 0..MaxCtorMsgs :
    \E objs \in [1..n -> MessageObjects] :
    \E mask \in Masks :
    \E s \in BOOLEAN :
        LET r == refresh(objs, [i \in 1..n |-> i], mask, s) IN
        /\ heap = objs
        /\ messages = [i \in 1..n |-> i]
        /\ nodes = 0
        /\ buses = 0
        /\ version = 0
        /\ dbc = 0
        /\ autosar = 0
        /\ name_to_message = r.name_to_message
        /\ frame_id_to_message = r.frame_id_to_message
        /\ frame_id_mask = mask
        /\ strict = s
        /\ loads = 0
        /\ last = [op |-> "init", status |-> r.status, src |-> 0,
                   loaded |-> [i \in 1..n |-> i], warnings |-> r.warnings,
                   failed |-> r.failed]
        /\ ret = NoRet

\* a constructor that raised leaves no Database to call
Constructed == ~(last.op = "init" /\ last.status = "error")

----------------------------------------------------------------------------
(* Database.refresh called by client code *)

\* refresh() adding to the tables it finds instead of starting from empty ones
Refresh_NoClear ==
    /\ Constructed
    /\ LET r == refresh_loop(heap, messages, frame_id_mask, strict, 1,
                             [name_to_message |-> name_to_message,
                              frame_id_to_message |-> frame_id_to_message,
                              warnings |-> {}, status |-> "ok", failed |-> 0]) IN
        /\ name_to_message' = r.name_to_message
        /\ frame_id_to_message' = r.frame_id_to_message
        /\ last' = [op |-> "refresh", status |-> r.status, src |-> 0,
                    loaded |-> <<>>, warnings |-> r.warnings, failed |-> r.failed]
    /\ ret' = NoRet
    /\ UNCHANGED <<heap, messages, nodes, buses, version, dbc, autosar,
                   frame_id_mask, strict, loads>>

\* refresh() validating with Message.refresh's default strict=True
Refresh_DefaultStrict ==
    /\ Constructed
    /\ LET r == refresh(heap, messages, frame_id_mask, TRUE) IN
        /\ name_to_message' = r.name_to_message
        /\ frame_id_to_message' = r.frame_id_to_message
        /\ last' = [op |-> "refresh", status |-> r.status, src |-> 0,
                    loaded |-> <<>>, warnings |-> r.warnings, failed |-> r.failed]
    /\ ret' = NoRet
    /\ UNCHANGED <<heap, messages, nodes, buses, version, dbc, autosar,
                   frame_id_mask, strict, loads>>

Refresh ==
    /\ Constructed
    /\ LET r == refresh(heap, messages, frame_id_mask, strict) IN
        /\ name_to_message' = r.name_to_message
        /\ frame_id_to_message' = r.frame_id_to_message
        /\ last' = [op |-> "refresh", status |-> r.status, src |-> 0,
                    loaded |-> <<>>, warnings |-> r.warnings, failed |-> r.failed]
    /\ ret' = NoRet
    /\ UNCHANGED <<heap, messages, nodes, buses, version, dbc, autosar,
                   frame_id_mask, strict, loads>>

----------------------------------------------------------------------------
(* The format loaders and the add_*_string operations *)

\* an input string: malformed, or the text of a source with these messages
Sources(room) ==
    UNION {[1..n -> MessageObjects] : n \in 0..(IF room < MaxPerLoad THEN room ELSE MaxPerLoad)}

Strings(room) ==
    {[parses |-> FALSE, objs |-> <<>>]} \cup {[parses |-> TRUE, objs |-> o] : o \in Sources(room)}

\* <fmt>.load_string(string, strict): the parsed source, or a failure
load_string(string, s) ==
    IF ~string.parses
       \/ (\E i \in DOMAIN string.objs : MessageRefreshRaises(string.objs[i], s))
    THEN [ok |-> FALSE]
    ELSE [ok |-> TRUE, messages |-> string.objs]

\* an add that empties the lookup tables before the loader has returned
LoadFailed_TablesCleared ==
    /\ last' = [op |-> "add", status |-> "load_error", src |-> 0, loaded |-> <<>>,
                warnings |-> {}, failed |-> 0]
    /\ ret' = NoRet
    /\ name_to_message' = EmptyMap
    /\ frame_id_to_message' = EmptyMap
    /\ UNCHANGED <<heap, messages, nodes, buses, version, dbc, autosar,
                   frame_id_mask, strict, loads>>

LoadFailed ==
    /\ last' = [op |-> "add", status |-> "load_error", src |-> 0, loaded |-> <<>>,
                warnings |-> {}, failed |-> 0]
    /\ ret' = NoRet
    /\ UNCHANGED <<heap, messages, nodes, buses, version, dbc, autosar,
                   name_to_message, frame_id_to_message, frame_id_mask, strict,
                   loads>>

\* the merge with "=" written for "+=" on the message list
Merge_Replace(objs) ==
    LET src == loads + 1
        ids == [i \in 1..Len(objs) |-> Len(heap) + i]
        h2 == heap \o objs
        l2 == ids
        r == refresh(h2, l2, frame_id_mask, strict)
    IN /\ heap' = h2
       /\ messages' = l2
       /\ nodes' = src
       /\ buses' = src
       /\ version' = src
       /\ dbc' = src
       /\ name_to_message' = r.name_to_message
       /\ frame_id_to_message' = r.frame_id_to_message
       /\ loads' = src
       /\ last' = [op |-> "add", status |-> r.status, src |-> src, loaded |-> ids,
                   warnings |-> r.warnings, failed |-> r.failed]
       /\ ret' = NoRet
       /\ UNCHANGED <<frame_id_mask, strict>>

\* the statements the four add_*_string methods share, ending in refresh()
Merge(objs) ==
    LET src == loads + 1
        ids == [i \in 1..Len(objs) |-> Len(heap) + i]
        h2 == heap \o objs
        l2 == messages \o ids
        r == refresh(h2, l2, frame_id_mask, strict)
    IN /\ heap' = h2
       /\ messages' = l2
       /\ nodes' = src
       /\ buses' = src
       /\ version' = src
       /\ dbc' = src
       /\ name_to_message' = r.name_to_message
       /\ frame_id_to_message' = r.frame_id_to_message
       /\ loads' = src
       /\ last' = [op |-> "add", status |-> r.status, src |-> src, loaded |-> ids,
                   warnings |-> r.warnings, failed |-> r.failed]
       /\ ret' = NoRet
       /\ UNCHANGED <<frame_id_mask, strict>>

AddArxmlString(string) ==
    /\ Constructed
    /\ loads < MaxLoads
    /\ LET database == load_string(string, strict) IN
        IF ~database.ok THEN LoadFailed
        ELSE /\ Merge(database.messages)
             /\ autosar' = loads + 1

AddDbcString(string) ==
    /\ Constructed
    /\ loads < MaxLoads
    /\ LET database == load_string(string, strict) IN
        IF ~database.ok THEN LoadFailed
        ELSE /\ Merge(database.messages)
             /\ UNCHANGED autosar

AddKcdString(string) ==
    /\ Constructed
    /\ loads < MaxLoads
    /\ LET database == load_string(string, strict) IN
        IF ~database.ok THEN LoadFailed
        ELSE /\ Merge(database.messages)
             /\ UNCHANGED autosar

AddSymString(string) ==
    /\ Constructed
    /\ loads < MaxLoads
    /\ LET database == load_string(string, strict) IN
        IF ~database.ok THEN LoadFailed
        ELSE /\ Merge(database.messages)
             /\ UNCHANGED autosar

AddArxml == \E string \in Strings(MaxMsgs - Len(heap)) : AddArxmlString(string)

AddDbc == \E string \in Strings(MaxMsgs - Len(heap)) : AddDbcString(string)

AddKcd == \E string \in Strings(MaxMsgs - Len(heap)) : AddKcdString(string)

AddSym == \E string \in Strings(MaxMsgs - Len(heap)) : AddSymString(string)

----------------------------------------------------------------------------
(* Client code editing a message's signals in place; refresh() is not run *)

EditSignals(m) ==
    /\ Constructed
    /\ heap' = [heap EXCEPT ![m].valid = ~heap[m].valid]
    /\ last' = [op |-> "edit", status |-> "ok", src |-> 0, loaded |-> <<>>,
                warnings |-> {}, failed |-> 0]
    /\ ret' = NoRet
    /\ UNCHANGED <<messages, nodes, buses, version, dbc, autosar,
                   name_to_message, frame_id_to_message, frame_id_mask, strict,
                   loads>>

Edit == \E m \in 1..Len(heap) : EditSignals(m)

----------------------------------------------------------------------------
(* Client code editing the list returned by Database.messages, or a         *)
(* message's name or frame id, in place; refresh() is not run               *)

\* an edit that empties the lookup tables, as a dirty flag would
Edited_Invalidating ==
    /\ last' = [op |-> "edit", status |-> "ok", src |-> 0, loaded |-> <<>>,
                warnings |-> {}, failed |-> 0]
    /\ ret' = NoRet
    /\ name_to_message' = EmptyMap
    /\ frame_id_to_message' = EmptyMap
    /\ UNCHANGED <<nodes, buses, version, dbc, autosar, frame_id_mask, strict, loads>>

Edited ==
    /\ last' = [op |-> "edit", status |-> "ok", src |-> 0, loaded |-> <<>>,
                warnings |-> {}, failed |-> 0]
    /\ ret' = NoRet
    /\ UNCHANGED <<nodes, buses, version, dbc, autosar,
                   name_to_message, frame_id_to_message, frame_id_mask, strict,
                   loads>>

\* db.messages.append(Message(...))
ListAppend(obj) ==
    /\ Constructed
    /\ Len(heap) < MaxMsgs
    /\ heap' = Append(heap, obj)
    /\ messages' = Append(messages, Len(heap) + 1)
    /\ Edited

\* del db.messages[i]
ListRemove(i) ==
    /\ Constructed
    /\ messages' = SubSeq(messages, 1, i - 1) \o SubSeq(messages, i + 1, Len(messages))
    /\ UNCHANGED heap
    /\ Edited

\* message.name = name
EditName(m, name) ==
    /\ Constructed
    /\ heap[m].name # name
    /\ heap' = [heap EXCEPT ![m].name = name]
    /\ UNCHANGED messages
    /\ Edited

\* message.frame_id = frame_id
EditFrameId(m, frame_id) ==
    /\ Constructed
    /\ heap[m].frame_id # frame_id
    /\ heap' = [heap EXCEPT ![m].frame_id = frame_id]
    /\ UNCHANGED messages
    /\ Edited

AppendMessage == \E obj \in MessageObjects : ListAppend(obj)

RemoveMessage == \E i \in 1..Len(messages) : ListRemove(i)

Rename == \E m \in 1..Len(heap) : \E name \in Names : EditName(m, name)

Renumber == \E m \in 1..Len(heap) : \E frame_id \in FrameIds : EditFrameId(m, frame_id)

----------------------------------------------------------------------------
(* Lookups and the encode / decode dispatch *)

\* Message.encode / Message.decode: the value computed from the message and
\* the data, or an EncodeError / DecodeError for data the message rejects
MessageEncode(m, data) == IF data = "bad" THEN "EncodeError" ELSE "ok"
MessageDecode(m, data) == IF data = "bad" THEN "DecodeError" ELSE "ok"

StrKey(n) == [kind |-> "str", name |-> n, id |-> PyInt(0)]
IntKey(i) == [kind |-> "int", name |-> "", id |-> i]
OtherKey == [kind |-> "other", name |-> "", id |-> PyInt(0)]

QueryInts ==
    {PyInt(k) : k \in QueryIds}
        \cup {BitOr(PyInt(k), BitNot(frame_id_mask)) : k \in QueryIds}

QueryKeys ==
    {StrKey(n) : n \in QueryNames} \cup {IntKey(i) : i \in QueryInts} \cup {OtherKey}

Returned(op, key, data, status, m, codec) ==
    /\ ret' = [op |-> op, kind |-> key.kind, name |-> key.name, id |-> key.id,
               data |-> data, status |-> status, message |-> m, codec |-> codec]
    /\ UNCHANGED <<heap, messages, nodes, buses, version, dbc, autosar,
                   name_to_message, frame_id_to_message, frame_id_mask, strict,
                   loads, last>>

\* d[k] on a Python dict: the value, or KeyError
DictGet(d, k) ==
    IF k \in DOMAIN d THEN [status |-> "ok", message |-> d[k]]
    ELSE [status |-> "KeyError", message |-> 0]

get_message_by_name(n2m, name) == DictGet(n2m, name)

\* the lookup with the mask forgotten
get_message_by_frame_id_unmasked(f2m, mask, frame_id) == DictGet(f2m, frame_id)

get_message_by_frame_id(f2m, mask, frame_id) == DictGet(f2m, BitAnd(frame_id, mask))

GetMessageByName(name) ==
    /\ Constructed
    /\ LET r == get_message_by_name(name_to_message, name) IN
       Returned("get_message_by_name", StrKey(name), "", r.status, r.message, FALSE)

GetMessageByFrameId(frame_id) ==
    /\ Constructed
    /\ LET r == get_message_by_frame_id(frame_id_to_message, frame_id_mask, frame_id) IN
       Returned("get_message_by_frame_id", IntKey(frame_id), "", r.status, r.message, FALSE)

\* the isinstance dispatch at the head of encode_message and decode_message
resolve(f2m, n2m, frame_id_or_name) ==
    IF frame_id_or_name.kind = "int" THEN DictGet(f2m, frame_id_or_name.id)
    ELSE IF frame_id_or_name.kind = "str" THEN DictGet(n2m, frame_id_or_name.name)
    ELSE [status |-> "ValueError", message |-> 0]

\* encode_message going on to the codec with no message when the key is unknown
EncodeMessage_Default(frame_id_or_name, data) ==
    /\ Constructed
    /\ LET r == resolve(frame_id_to_message, name_to_message, frame_id_or_name) IN
       IF r.status = "ok"
       THEN Returned("encode_message", frame_id_or_name, data,
                     MessageEncode(heap[r.message], data), r.message, TRUE)
       ELSE IF r.status = "KeyError"
       THEN Returned("encode_message", frame_id_or_name, data, "EncodeError", 0, TRUE)
       ELSE Returned("encode_message", frame_id_or_name, data, r.status, 0, FALSE)

EncodeMessage(frame_id_or_name, data) ==
    /\ Constructed
    /\ LET r == resolve(frame_id_to_message, name_to_message, frame_id_or_name) IN
       IF r.status = "ok"
       THEN Returned("encode_message", frame_id_or_name, data,
                     MessageEncode(heap[r.message], data), r.message, TRUE)
       ELSE Returned("encode_message", frame_id_or_name, data, r.status, 0, FALSE)

\* decode_message remembering the message it resolved by name under the
\* message's unmasked frame id
DecodeMessage_Caching(frame_id_or_name, data) ==
    /\ Constructed
    /\ LET r == resolve(frame_id_to_message, name_to_message, frame_id_or_name) IN
       IF r.status = "ok"
       THEN /\ ret' = [op |-> "decode_message", kind |-> frame_id_or_name.kind,
                       name |-> frame_id_or_name.name, id |-> frame_id_or_name.id,
                       data |-> data, status |-> MessageDecode(heap[r.message], data),
                       message |-> r.message, codec |-> TRUE]
            /\ frame_id_to_message' =
                   MapPut(frame_id_to_message, PyInt(heap[r.message].frame_id), r.message)
            /\ UNCHANGED <<heap, messages, nodes, buses, version, dbc, autosar,
                           name_to_message, frame_id_mask, strict, loads, last>>
       ELSE Returned("decode_message", frame_id_or_name, data, r.status, 0, FALSE)

DecodeMessage(frame_id_or_name, data) ==
    /\ Constructed
    /\ LET r == resolve(frame_id_to_message, name_to_message, frame_id_or_name) IN
       IF r.status = "ok"
       THEN Returned("decode_message", frame_id_or_name, data,
                     MessageDecode(heap[r.message], data), r.message, TRUE)
       ELSE Returned("decode_message", frame_id_or_name, data, r.status, 0, FALSE)

ByName == \E name \in QueryNames : GetMessageByName(name)

ByFrameId == \E frame_id \in QueryInts : GetMessageByFrameId(frame_id)

Encode == \E key \in QueryKeys : \E data \in DataVals : EncodeMessage(key, data)

Decode == \E key \in QueryKeys : \E data \in DataVals : DecodeMessage(key, data)

----------------------------------------------------------------------------
(* Specifications *)

\* loading, refreshing and editing
Next == AddArxml \/ AddDbc \/ AddKcd \/ AddSym \/ Refresh \/ Edit

Spec == Init /\ [][Next]_vars

\* a constructed database being refreshed, edited and queried
NextQuery == Refresh \/ Edit \/ ByName \/ ByFrameId \/ Encode \/ Decode

SpecQuery == Init /\ [][NextQuery]_vars

\* a constructed database whose list and messages are edited, then refreshed
NextEdit == AppendMessage \/ RemoveMessage \/ Rename \/ Renumber \/ Refresh

SpecEdit == Init /\ [][NextEdit]_vars

----------------------------------------------------------------------------
(* Reference definitions for the claims: what the message list determines *)

Range(f) == {f[x] : x \in DOMAIN f}

Max(S) == CHOOSE x \in S : \A y \in S : y <= x

MaskedId(m) == BitAnd(PyInt(heap[m].frame_id), frame_id_mask)

NamePositions(n) == {i \in 1..Len(messages) : heap[messages[i]].name = n}

IdPositions(k) == {i \in 1..Len(messages) : MaskedId(messages[i]) = k}

NameHolder(n) == messages[Max(NamePositions(n))]

IdHolder(k) == messages[Max(IdPositions(k))]

\* the last constructor, add or refresh ran to its end and nothing was edited since
IndexFresh == last.op \in {"init", "add", "refresh"} /\ last.status = "ok"

----------------------------------------------------------------------------
(* Claims *)

\* C1 (as claimed): encode_message and decode_message resolve an integer key
\* through the frame-id index under the masked key (key & frame_id_mask): they
\* find the message indexed under the masked key, and fail with not-found
\* only when the masked key is not indexed.
C1_MaskedDispatch ==
    (ret.op \in {"encode_message", "decode_message"} /\ ret.kind = "int") =>
        LET k == BitAnd(ret.id, frame_id_mask) IN
        IF k \in DOMAIN frame_id_to_message
        THEN ret.status # "KeyError" /\ ret.message = frame_id_to_message[k]
        ELSE ret.status = "KeyError"

\* C2: after a completed refresh, get_message_by_frame_id(k) returns the last
\* message in list order whose masked frame id equals the masked k, and
\* raises not-found when the list has no such message.
C2_LookupByFrameId ==
    (ret.op = "get_message_by_frame_id" /\ IndexFresh) =>
        LET k == BitAnd(ret.id, frame_id_mask) IN
        IF IdPositions(k) = {}
        THEN ret.status = "KeyError" /\ ret.message = 0
        ELSE ret.status = "ok" /\ ret.message = IdHolder(k)

\* C2 witness: a lookup whose key differs from its masked key found the later
\* of two messages with that masked frame id
C2_Witness ==
    /\ ret.op = "get_message_by_frame_id"
    /\ IndexFresh
    /\ ret.status = "ok"
    /\ BitAnd(ret.id, frame_id_mask) # ret.id
    /\ Cardinality(IdPositions(BitAnd(ret.id, frame_id_mask))) >= 2
    /\ ret.message = messages[Len(messages)]

\* C3: two messages with the same name, or with the same masked frame id, in
\* the list (from one source or from successive loads) raise no error: a
\* constructor, add or refresh fails only on a message that does not validate
\* in a strict database; when it completes both messages are in the list, the
\* lookup by that name or frame id returns the last such message, not the
\* earlier one, and a warning naming the later message was logged.
C3_CollisionShadowing ==
    (last.op \in {"init", "add", "refresh"} /\ last.status # "load_error") =>
        \A i, j \in 1..Len(messages) :
            (i < j /\ (heap[messages[i]].name = heap[messages[j]].name
                       \/ MaskedId(messages[i]) = MaskedId(messages[j]))) =>
                /\ last.status = "error" => (strict /\ ~heap[last.failed].valid)
                /\ (last.status = "ok" /\ heap[messages[i]].name = heap[messages[j]].name) =>
                      LET r == get_message_by_name(name_to_message, heap[messages[j]].name) IN
                      /\ r.status = "ok"
                      /\ r.message = NameHolder(heap[messages[j]].name)
                      /\ r.message # messages[i]
                      /\ \E w \in last.warnings : w.dict = "name" /\ w.new = messages[j]
                /\ (last.status = "ok" /\ MaskedId(messages[i]) = MaskedId(messages[j])) =>
                      LET r == get_message_by_frame_id(frame_id_to_message, frame_id_mask,
                                                       PyInt(heap[messages[j]].frame_id)) IN
                      /\ r.status = "ok"
                      /\ r.message = IdHolder(MaskedId(messages[j]))
                      /\ r.message # messages[i]
                      /\ \E w \in last.warnings : w.dict = "frame_id" /\ w.new = messages[j]

\* C3 witness: an add completed whose message has the name of a message
\* loaded before it and a frame id that differs from it only in masked bits
C3_Witness ==
    /\ last.op = "add"
    /\ last.status = "ok"
    /\ messages = <<1, 2>>
    /\ last.loaded = <<2>>
    /\ heap[1].name = heap[2].name
    /\ heap[1].frame_id # heap[2].frame_id
    /\ MaskedId(1) = MaskedId(2)
    /\ name_to_message[heap[1].name] = 2
    /\ Cardinality(last.warnings) = 2

LostName(m) == NameHolder(heap[m].name) # m

LostId(m) == IdHolder(MaskedId(m)) # m

\* C4 (as claimed): after refresh, a message that lost the name slot or the
\* frame-id slot to a later message is in the list and is a value of neither
\* index.
C4_InNeitherIndex ==
    IndexFresh =>
        \A i \in 1..Len(messages) :
            (LostName(messages[i]) \/ LostId(messages[i])) =>
                /\ messages[i] \notin Range(name_to_message)
                /\ messages[i] \notin Range(frame_id_to_message)

\* C4 (amended): after refresh, a message that lost the name slot to a later
\* message is in the list and is not a value of the name index, and one that
\* lost the frame-id slot is not a value of the frame-id index; a message
\* that kept one of its two slots is still found through that index.
C4_NotInLostIndex ==
    IndexFresh =>
        \A i \in 1..Len(messages) :
            LET m == messages[i] IN
            /\ LostName(m) => m \notin Range(name_to_message)
            /\ LostId(m) => m \notin Range(frame_id_to_message)
            /\ ~LostName(m) => name_to_message[heap[m].name] = m
            /\ ~LostId(m) => frame_id_to_message[MaskedId(m)] = m

\* C4 witness: an add completed after which an earlier message has lost its
\* frame-id slot only and is still found by name
C4_Witness ==
    /\ IndexFresh
    /\ last.op = "add"
    /\ last.loaded = <<2>>
    /\ Len(messages) = 2
    /\ LostId(messages[1])
    /\ ~LostName(messages[1])
    /\ messages[1] \in Range(name_to_message)
    /\ messages[1] \notin Range(frame_id_to_message)

\* C5: an add that loads a source leaves the messages already in the list in
\* place and in order and puts the source's messages (the Message objects the
\* loader created, in their order) after them; by induction the list is the
\* constructor's messages followed by each source's messages in load order.
C5_AddAppends ==
    [][last'.op = "add" =>
          messages' = messages \o [i \in 1..(Len(heap') - Len(heap)) |-> Len(heap) + i]]_vars

\* C5 witness: a source with a message was added to a list that had a message
C5_Witness ==
    /\ last.op = "add"
    /\ last.status = "ok"
    /\ Len(last.loaded) >= 1
    /\ Len(messages) > Len(last.loaded)

\* C6 (as claimed): after an add that loaded a source, nodes, buses, version,
\* the dbc specifics and the autosar specifics are all those of that source.
C6_LastSourceWins ==
    (last.op = "add" /\ last.status # "load_error") =>
        /\ nodes = last.src
        /\ buses = last.src
        /\ version = last.src
        /\ dbc = last.src
        /\ autosar = last.src

\* C7: after a completed constructor, add or refresh the name index has
\* exactly the names of the listed messages as keys and maps each to the last
\* message of that name, and the frame-id index has exactly their masked frame
\* ids as keys and maps each to the last message with that masked id.
C7_IndexListConsistency ==
    IndexFresh =>
        /\ DOMAIN name_to_message = {heap[messages[i]].name : i \in 1..Len(messages)}
        /\ \A n \in DOMAIN name_to_message : name_to_message[n] = NameHolder(n)
        /\ DOMAIN frame_id_to_message = {MaskedId(messages[i]) : i \in 1..Len(messages)}
        /\ \A k \in DOMAIN frame_id_to_message : frame_id_to_message[k] = IdHolder(k)
        /\ Range(name_to_message) \cup Range(frame_id_to_message)
               \subseteq {messages[i] : i \in 1..Len(messages)}

\* C7 witness: a refresh indexed two messages under masked keys that are not
\* their frame ids
C7_Witness ==
    /\ IndexFresh
    /\ last.op = "refresh"
    /\ Len(messages) = 2
    /\ Cardinality(DOMAIN frame_id_to_message) = 2
    /\ \A i \in 1..2 : MaskedId(messages[i]) # PyInt(heap[messages[i]].frame_id)

Unresolved ==
    \/ ret.kind = "str" /\ ret.name \notin DOMAIN name_to_message
    \/ ret.kind = "int" /\ BitAnd(ret.id, frame_id_mask) \notin DOMAIN frame_id_to_message

\* C8: a lookup, encode or decode whose name is not a key of the name index,
\* or whose masked frame id is not a key of the frame-id index, fails with
\* not-found: no codec is called and no message or value comes back.
C8_NotFound ==
    (ret.op # "none" /\ Unresolved) =>
        (ret.status = "KeyError" /\ ~ret.codec /\ ret.message = 0)

\* C8 witness: encode_message failed on an integer key of a database that has
\* messages
C8_Witness ==
    /\ ret.op = "encode_message"
    /\ ret.kind = "int"
    /\ Unresolved
    /\ ret.status = "KeyError"
    /\ Len(messages) >= 1

\* C9: a step that is an encode_message or decode_message call, whatever its
\* outcome, changes no field of the Database.
C9_ReadOnly ==
    [][(ret'.op \in {"encode_message", "decode_message"} /\ ret' # ret) =>
          UNCHANGED <<dbvars, heap>>]_vars

\* C9 witness: a decode resolved a message by name and the codec rejected the data
C9_Witness ==
    /\ ret.op = "decode_message"
    /\ ret.kind = "str"
    /\ ret.status = "DecodeError"
    /\ ret.codec

\* C10 (as claimed): when a refresh of a strict database fails on a message,
\* every other message of the list resolves by its name and by its masked
\* frame id as it did before the refresh.
C10_OthersUnaffected ==
    [][(strict /\ last'.op = "refresh" /\ last'.status = "error") =>
          \A i \in 1..Len(messages) :
              messages[i] # last'.failed =>
                  /\ get_message_by_name(name_to_message', heap[messages[i]].name)
                         = get_message_by_name(name_to_message, heap[messages[i]].name)
                  /\ get_message_by_frame_id(frame_id_to_message', frame_id_mask,
                                             PyInt(heap[messages[i]].frame_id))
                         = get_message_by_frame_id(frame_id_to_message, frame_id_mask,
                                                   PyInt(heap[messages[i]].frame_id))]_vars

Listed == {messages[i] : i \in 1..Len(messages)}

\* C11: the strict flag never changes after construction, and it decides every
\* constructor, add and refresh: in a strict database the operation raises
\* when a listed message violates the signal layout rules, and raises in its
\* refresh only for such a message; in a database that is not strict no
\* refresh raises and every listed message, the violating ones included, has
\* its name and its masked frame id in the indices.
C11_StrictGoverns ==
    /\ [][strict' = strict]_vars
    /\ [](last.op \in {"init", "add", "refresh"} =>
            /\ (strict /\ \E m \in Listed : ~heap[m].valid) =>
                   last.status \in {"error", "load_error"}
            /\ last.status = "error" =>
                   (strict /\ last.failed \in Listed /\ ~heap[last.failed].valid)
            /\ (~strict /\ last.status # "load_error") =>
                   /\ last.status = "ok"
                   /\ \A m \in Listed :
                         /\ heap[m].name \in DOMAIN name_to_message
                         /\ MaskedId(m) \in DOMAIN frame_id_to_message)

\* C11 witness: a refresh of a database that is not strict completed with a
\* violating message in the list, and that message is the one indexed
C11_Witness ==
    /\ ~strict
    /\ last.op = "refresh"
    /\ last.status = "ok"
    /\ Len(messages) = 2
    /\ ~heap[messages[2]].valid
    /\ heap[messages[1]].valid
    /\ name_to_message[heap[messages[2]].name] = messages[2]

\* the tables when refresh() has gone through the first j messages of the list
RefreshedTo(j) == refresh(heap, SubSeq(messages, 1, j), frame_id_mask, strict)

\* C12: in a strict database, at every point of a refresh (after each message
\* of the list, and when it stops on a message that fails) the messages in
\* the two indices are listed messages that passed validation, and the
\* message that failed is in neither index; the same holds of the indices a
\* constructor, add or refresh leaves behind.
C12_ValidatedBeforeIndexed ==
    strict =>
        /\ \A j \in 0..Len(messages) :
              LET r == RefreshedTo(j) IN
              /\ \A m \in Range(r.name_to_message) \cup Range(r.frame_id_to_message) :
                    /\ heap[m].valid
                    /\ \E i \in 1..j : messages[i] = m
              /\ r.failed \notin Range(r.name_to_message) \cup Range(r.frame_id_to_message)
        /\ (last.op \in {"init", "add", "refresh"} /\ last.status # "load_error") =>
              /\ \A m \in Range(name_to_message) \cup Range(frame_id_to_message) :
                    heap[m].valid /\ m \in Listed
              /\ last.failed \notin Range(name_to_message) \cup Range(frame_id_to_message)

\* C12 witness: a strict refresh stopped on the second message, which is in
\* neither index, with the first message indexed
C12_Witness ==
    /\ strict
    /\ last.op = "refresh"
    /\ last.status = "error"
    /\ Len(messages) = 2
    /\ last.failed = messages[2]
    /\ messages[1] \in Range(name_to_message)
    /\ messages[2] \notin Range(name_to_message) \cup Range(frame_id_to_message)

\* C16: an add whose loader fails leaves the message list, nodes, buses,
\* version, both format specifics, both indices and the Message objects as
\* they were before the call.
C16_LoadFailureIsAtomic ==
    [][(last'.op = "add" /\ last'.status = "load_error") =>
          UNCHANGED <<heap, messages, nodes, buses, version, dbc, autosar,
                      name_to_message, frame_id_to_message, frame_id_mask, strict>>]_vars

\* C16 witness: a loader failed on a database that holds an indexed message
\* and a loaded source
C16_Witness ==
    /\ last.op = "add"
    /\ last.status = "load_error"
    /\ loads = 1
    /\ Len(messages) >= 1
    /\ name_to_message # EmptyMap

\* the two indices are what the current list and mask determine
IndexMatchesList ==
    /\ DOMAIN name_to_message = {heap[m].name : m \in Listed}
    /\ \A n \in DOMAIN name_to_message : name_to_message[n] = NameHolder(n)
    /\ DOMAIN frame_id_to_message = {MaskedId(m) : m \in Listed}
    /\ \A k \in DOMAIN frame_id_to_message : frame_id_to_message[k] = IdHolder(k)

\* the keys of QueryKeys that do not depend on the mask, and the integers of
\* QueryIds as Python ints
QueryIdInts == {PyInt(k) : k \in QueryIds}

QueryNameKeys == {StrKey(n) : n \in QueryNames} \cup {OtherKey}

\* C13: an edit by client code (a message appended to or removed from the
\* list, a message renamed or given another frame id) changes neither index:
\* every lookup and every encode / decode dispatch resolves as before the
\* edit, so a removed message is still found, an appended message is in
\* neither index, and a message found under its name or masked frame id
\* before it was changed is still found under that old key and not under the
\* new one; once a refresh completes the indices are again those of the
\* current list.
C13_NoDirtyTracking ==
    [][/\ last'.op = "edit" =>
            LET ints == QueryIdInts
                           \cup {BitOr(i, BitNot(frame_id_mask)) : i \in QueryIdInts}
                keys == QueryNameKeys \cup {IntKey(i) : i \in ints}
                old_id(m) == masked_frame_id(heap[m].frame_id, frame_id_mask)
                new_id(m) == masked_frame_id(heap'[m].frame_id, frame_id_mask)
            IN
            /\ name_to_message' = name_to_message
            /\ frame_id_to_message' = frame_id_to_message
            /\ \A key \in keys :
                  resolve(frame_id_to_message', name_to_message', key)
                      = resolve(frame_id_to_message, name_to_message, key)
            /\ \A k \in ints :
                  get_message_by_frame_id(frame_id_to_message', frame_id_mask', k)
                      = get_message_by_frame_id(frame_id_to_message, frame_id_mask, k)
            /\ \A m \in (1..Len(heap')) \ (1..Len(heap)) :
                  m \notin Range(name_to_message') \cup Range(frame_id_to_message')
            /\ \A m \in 1..Len(heap) :
                  /\ (heap'[m].name # heap[m].name
                      /\ get_message_by_name(name_to_message, heap[m].name).message = m) =>
                         /\ get_message_by_name(name_to_message', heap[m].name).message = m
                         /\ get_message_by_name(name_to_message', heap'[m].name).message # m
                  /\ (heap'[m].frame_id # heap[m].frame_id
                      /\ new_id(m) # old_id(m)
                      /\ DictGet(frame_id_to_message, old_id(m)).message = m) =>
                         /\ get_message_by_frame_id(frame_id_to_message', frame_id_mask,
                                                    PyInt(heap[m].frame_id)).message = m
                         /\ get_message_by_frame_id(frame_id_to_message', frame_id_mask,
                                                    PyInt(heap'[m].frame_id)).message # m
       /\ (last.op = "edit" /\ last'.op = "refresh" /\ last'.status = "ok") =>
            IndexMatchesList']_vars

\* C13 witness: after edits the name index still maps a message's old name to
\* it and still holds a message that was removed from the list
C13_Witness ==
    /\ last.op = "edit"
    /\ \E n \in DOMAIN name_to_message : heap[name_to_message[n]].name # n
    /\ \E m \in Range(frame_id_to_message) : m \notin Listed
    /\ Len(messages) >= 1

\* C14: a refresh rebuilds the indices from the list alone: whatever they held
\* before, after it they hold no message that is not in the list, when it
\* completes they are exactly what the current list and mask determine, and a
\* refresh that follows a completed refresh with no edit between changes
\* nothing.
C14_RefreshRebuilds ==
    [][last'.op = "refresh" =>
          /\ (Range(name_to_message) \cup Range(frame_id_to_message) \subseteq Listed)'
          /\ last'.status = "ok" => IndexMatchesList'
          /\ (last.op = "refresh" /\ last.status = "ok") =>
                 UNCHANGED <<name_to_message, frame_id_to_message, last>>]_vars

\* C14 witness: a refresh completed on a list from which a message had been
\* removed, and the indices hold the remaining message only
C14_Witness ==
    /\ last.op = "refresh"
    /\ last.status = "ok"
    /\ Len(heap) = 2
    /\ Len(messages) = 1
    /\ IndexMatchesList
    /\ Range(name_to_message) = Listed

\* the integers 0 .. 0xffffffff
InMaskWidth(k) == ~k.neg /\ k.bits \subseteq DefaultFrameIdMask.bits

\* under the default mask every listed message is indexed under its own
\* frame id, and two listed messages share a key only if their frame ids are equal
IndexedUnmasked ==
    /\ \A m \in Listed : MaskedId(m) = PyInt(heap[m].frame_id)
    /\ \A k \in DOMAIN frame_id_to_message : PyInt(heap[frame_id_to_message[k]].frame_id) = k
    /\ \A m1, m2 \in Listed :
          MaskedId(m1) = MaskedId(m2) <=> heap[m1].frame_id = heap[m2].frame_id

\* C15 (as claimed): with the default mask each message is indexed under its
\* own frame id, messages collide only on equal frame ids, and a lookup by any
\* integer k returns only a message whose frame id is k.
C15_NoMasking ==
    (frame_id_mask = DefaultFrameIdMask /\ IndexFresh) =>
        /\ IndexedUnmasked
        /\ (ret.op = "get_message_by_frame_id" /\ ret.status = "ok") =>
               PyInt(heap[ret.message].frame_id) = ret.id

\* C15 (amended): the same, for lookups by an integer k in 0 .. 0xffffffff.
C15_NoMaskingWithin32Bits ==
    (frame_id_mask = DefaultFrameIdMask /\ IndexFresh) =>
        /\ IndexedUnmasked
        /\ (ret.op = "get_message_by_frame_id" /\ InMaskWidth(ret.id)) =>
               IF \E m \in Listed : PyInt(heap[m].frame_id) = ret.id
               THEN ret.status = "ok" /\ PyInt(heap[ret.message].frame_id) = ret.id
               ELSE ret.status = "KeyError"

\* C15 witness: under the default mask two messages with frame ids 1 and 3
\* are indexed apart and the lookup by 3 found the one with frame id 3
C15_Witness ==
    /\ frame_id_mask = DefaultFrameIdMask
    /\ IndexFresh
    /\ Len(messages) = 2
    /\ heap[messages[1]].frame_id = 3
    /\ heap[messages[2]].frame_id = 1
    /\ ret.op = "get_message_by_frame_id"
    /\ ret.id = PyInt(3)
    /\ ret.status = "ok"
    /\ ret.message = messages[1]

====
